---- MODULE Spec2Model ----
(***************************************************************************)
(* Ownership, lifecycle and callback bridging of media-server-sys          *)
(* (src/media-server-sys/src/bridge.cc, include/bridge.h).                 *)
(*                                                                         *)
(* The bridge objects (RtpBundleTransportFacade, the connection facade,    *)
(* OwnedRtpBundleTransportConnection, the listener adapter, the source     *)
(* group facades with their owned groups and the stream transponder        *)
(* facade) are modelled statement by statement.  The native engine         *)
(* (RTPBundleTransport, DTLSICETransport, RTPStreamTransponder) is not     *)
(* part of the sources; it is modelled as a recording double: a username   *)
(* map, one listener slot per session, the sets of source groups           *)
(* registered on a session, the relay source of a transponder and a        *)
(* per-session record of the calls made on it.                             *)
(*                                                                         *)
(* Three specifications share the state:                                   *)
(*   Spec        registry, connections, listeners, incoming source groups  *)
(*               (src/media-server-sys);                                   *)
(*   SpecRelay   stream transponders over source groups that already       *)
(*               exist (src/media-server-sys/include/bridge.h);            *)
(*   SpecLegacy  the registry and connection facade of src/src/bridge.cc.  *)
(***************************************************************************)
EXTENDS Integers, Sequences, FiniteSets, TLC

\* ------------------------------------------------------------------ bounds
Usernames == {"alice", "bob"}
Ssrcs == {111, 112}
OutgoingSsrcs == {211}  \* mediaSsrc values given to add_outgoing_source_group
MaxAllocs == 3        \* sessions, source groups and listener adapters ever created
MaxDeliveries == 1    \* engine events ever fired
MaxTransponders == 1  \* stream transponders ever created

ConnIds == 1..MaxAllocs
GroupIds == 1..MaxAllocs
TpIds == 1..MaxTransponders

VARIABLES
    connections,      \* RTPBundleTransport: username -> session (0: none)
    listener,         \* DTLSICETransport: registered Listener* of a session (0: nullptr)
    incoming,         \* DTLSICETransport: incoming source groups registered on a session
    outgoing,         \* DTLSICETransport: outgoing source groups registered on a session
    events,           \* per session: what the engine double and the listeners recorded, in order
    nextConn,         \* next session the engine allocates
    username,         \* RTPBundleTransport::Connection::username of a session
    guardRefs,        \* use count of shared_ptr<OwnedRtpBundleTransportConnection>
    guardState,       \* "none", "live", "destroyed"
    facadePc,         \* position of the connection facade of a session
    active_listener,  \* RtpBundleTransportConnectionFacade::active_listener (0: nullptr)
    bridgeAlive,      \* DtlsIceTransportListenerCxxAdapter objects not yet destroyed
    nextBridge,       \* next adapter make_unique allocates
    groupPc,          \* position of an owned source group: "none", "live",
                      \* "dtor_members", "dtor_free", "gone"
    groupConn,        \* the session whose guard the owned group holds
    groupSsrc,        \* media.ssrc of the native source group
    nextGroup,        \* next source group make_unique allocates
    groupKind,        \* "incoming" or "outgoing"
    groupRefs,        \* use count of shared_ptr<OwnedRtp...SourceGroup>
    groupFacade,      \* the Rtp...SourceGroupFacade of the group exists
    registryPc,       \* RtpBundleTransportFacade: "none", "constructed", "alive", "dropped"
    socket,           \* RTPBundleTransport::Init: "unopened", "open", "failed"
    transportRefs,    \* use count of shared_ptr<RTPBundleTransport>
    transportState,   \* "none", "alive", "destroyed"
    tpPc,             \* position of a stream transponder facade
    tpOutgoing,       \* RtpStreamTransponderFacade::outgoing (0: nullptr)
    tpIncoming,       \* RtpStreamTransponderFacade::incoming (0: nullptr)
    tpWait,           \* owned group whose destructor the transponder's release started
    relay,            \* RTPStreamTransponder: the incoming source it relays (0: none)
    nextTp,           \* next transponder allocated
    result,           \* what the operation of the latest step returned or threw
    crashed           \* the process died in a call of a destroyed adapter

engineVars == <<connections, listener, incoming, outgoing, events, nextConn,
                username>>
guardVars == <<guardRefs, guardState>>
facadeVars == <<facadePc, active_listener, bridgeAlive, nextBridge>>
groupVars == <<groupPc, groupConn, groupSsrc, nextGroup, groupKind, groupRefs,
               groupFacade>>
registryVars == <<registryPc, socket, transportRefs, transportState>>
relayVars == <<tpPc, tpOutgoing, tpIncoming, tpWait, relay, nextTp>>
vars == <<connections, listener, incoming, outgoing, events, nextConn,
          username, guardRefs, guardState, facadePc, active_listener,
          bridgeAlive, nextBridge, groupPc, groupConn, groupSsrc, nextGroup,
          groupKind, groupRefs, groupFacade, registryPc, socket,
          transportRefs, transportState, tpPc, tpOutgoing, tpIncoming, tpWait,
          relay, nextTp, result, crashed>>

\* ------------------------------------------------------- recording helpers
Record(c, kind, arg) == [events EXCEPT ![c] = Append(@, <<kind, arg>>)]

IsCallback(e) == e[1] \in {"Callback", "CallbackFreed", "Crash"}

Count(s, kind) == Cardinality({i \in DOMAIN s : s[i][1] = kind})

NumCallbacks(s) == Cardinality({i \in DOMAIN s : IsCallback(s[i])})

\* the argument of the latest SetListener recorded before position i (0: none yet)
LastSet(s, i) ==
    LET before == {j \in 1..(i - 1) : s[j][1] = "SetListener"}
    IN IF before = {} THEN 0
       ELSE s[CHOOSE j \in before : \A k \in before : k <= j][2]

\* a session is registered when the username map refers to it
Registered(c) == username[c] \in Usernames /\ connections[username[c]] = c

Returned == [op |-> "", arg |-> "", outcome |-> "ok"]

\* ------------------------------------------------------------------ budget
\* objects created so far, and events fired so far
Allocated == (nextConn - 1) + (nextGroup - 1) + (nextBridge - 1)

Delivered ==
    LET RECURSIVE sum(_)
        sum(S) == IF S = {} THEN 0
                  ELSE LET c == CHOOSE x \in S : TRUE
                       IN NumCallbacks(events[c]) + sum(S \ {c})
    IN sum(ConnIds)

\* ---------------------------------------------------------- engine double
\* RTPBundleTransport::AddICETransport: NULL (0) when the properties are
\* rejected or a session already exists for the username, else a new session
AddICETransport(u, ok) ==
    IF ~ok \/ connections[u] # 0 THEN 0 ELSE nextConn

\* DTLSICETransport::AddIncomingSourceGroup: false on an ssrc already registered
AddIncomingSourceGroup(c, ssrc) ==
    \A g \in incoming[c] : groupSsrc[g] # ssrc

\* DTLSICETransport::AddOutgoingSourceGroup: false on an ssrc already registered
AddOutgoingSourceGroup(c, ssrc) ==
    \A g \in outgoing[c] : groupSsrc[g] # ssrc

\* the engine call that removes a source group of a kind
RemoveCall(kind) ==
    IF kind = "incoming" THEN "RemoveIncomingSourceGroup"
    ELSE "RemoveOutgoingSourceGroup"

\* the state before new_rtp_bundle_transport
Init ==
    /\ connections = [u \in Usernames |-> 0]
    /\ listener = [c \in ConnIds |-> 0]
    /\ incoming = [c \in ConnIds |-> {}]
    /\ outgoing = [c \in ConnIds |-> {}]
    /\ events = [c \in ConnIds |-> <<>>]
    /\ nextConn = 1
    /\ username = [c \in ConnIds |-> ""]
    /\ guardRefs = [c \in ConnIds |-> 0]
    /\ guardState = [c \in ConnIds |-> "none"]
    /\ facadePc = [c \in ConnIds |-> "none"]
    /\ active_listener = [c \in ConnIds |-> 0]
    /\ bridgeAlive = {}
    /\ nextBridge = 1
    /\ groupPc = [g \in GroupIds |-> "none"]
    /\ groupConn = [g \in GroupIds |-> 0]
    /\ groupSsrc = [g \in GroupIds |-> 0]
    /\ nextGroup = 1
    /\ groupKind = [g \in GroupIds |-> "incoming"]
    /\ groupRefs = [g \in GroupIds |-> 0]
    /\ groupFacade = [g \in GroupIds |-> FALSE]
    /\ registryPc = "none"
    /\ socket = "unopened"
    /\ transportRefs = 0
    /\ transportState = "none"
    /\ tpPc = [t \in TpIds |-> "none"]
    /\ tpOutgoing = [t \in TpIds |-> 0]
    /\ tpIncoming = [t \in TpIds |-> 0]
    /\ tpWait = [t \in TpIds |-> 0]
    /\ relay = [t \in TpIds |-> 0]
    /\ nextTp = 1
    /\ result = Returned
    /\ crashed = FALSE

\* The state in which relaying is set up: new_rtp_bundle_transport, then
\* add_ice_transport("alice") with two incoming source groups (2 and 3) and
\* add_ice_transport("bob") with one outgoing source group (1); every facade
\* is still held by the caller.
InitRelay ==
    /\ connections = [u \in Usernames |-> IF u = "alice" THEN 1 ELSE 2]
    /\ listener = [c \in ConnIds |-> 0]
    /\ incoming = [c \in ConnIds |-> IF c = 1 THEN {2, 3} ELSE {}]
    /\ outgoing = [c \in ConnIds |-> IF c = 2 THEN {1} ELSE {}]
    /\ events = [c \in ConnIds |->
                   IF c = 1 THEN <<<<"AddICETransport", 0>>,
                                   <<"AddIncomingSourceGroup", 2>>,
                                   <<"AddIncomingSourceGroup", 3>>>>
                   ELSE IF c = 2 THEN <<<<"AddICETransport", 0>>,
                                        <<"AddOutgoingSourceGroup", 1>>>>
                   ELSE <<>>]
    /\ nextConn = 3
    /\ username = [c \in ConnIds |->
                     IF c = 1 THEN "alice" ELSE IF c = 2 THEN "bob" ELSE ""]
    /\ guardRefs = [c \in ConnIds |->
                      IF c = 1 THEN 3 ELSE IF c = 2 THEN 2 ELSE 0]
    /\ guardState = [c \in ConnIds |-> IF c \in {1, 2} THEN "live" ELSE "none"]
    /\ facadePc = [c \in ConnIds |-> IF c \in {1, 2} THEN "idle" ELSE "none"]
    /\ active_listener = [c \in ConnIds |-> 0]
    /\ bridgeAlive = {}
    /\ nextBridge = 1
    /\ groupPc = [g \in GroupIds |-> IF g \in {1, 2, 3} THEN "live" ELSE "none"]
    /\ groupConn = [g \in GroupIds |->
                      IF g = 1 THEN 2 ELSE IF g \in {2, 3} THEN 1 ELSE 0]
    /\ groupSsrc = [g \in GroupIds |->
                      IF g \in {1, 2} THEN 111 ELSE IF g = 3 THEN 112 ELSE 0]
    /\ nextGroup = 4
    /\ groupKind = [g \in GroupIds |-> IF g = 1 THEN "outgoing" ELSE "incoming"]
    /\ groupRefs = [g \in GroupIds |-> IF g \in {1, 2, 3} THEN 1 ELSE 0]
    /\ groupFacade = [g \in GroupIds |-> g \in {1, 2, 3}]
    /\ registryPc = "alive"
    /\ socket = "open"
    /\ transportRefs = 5
    /\ transportState = "alive"
    /\ tpPc = [t \in TpIds |-> "none"]
    /\ tpOutgoing = [t \in TpIds |-> 0]
    /\ tpIncoming = [t \in TpIds |-> 0]
    /\ tpWait = [t \in TpIds |-> 0]
    /\ relay = [t \in TpIds |-> 0]
    /\ nextTp = 1
    /\ result = Returned
    /\ crashed = FALSE

\* ------------------------------------------------ shared ownership release
\* ~shared_ptr<RTPBundleTransport> of n holders: the release that takes the
\* use count to zero destroys the transport (socket and username map)
ReleaseTransport(n) ==
    /\ transportRefs' = transportRefs - n
    /\ transportState' = IF transportRefs - n = 0 THEN "destroyed"
                         ELSE transportState

\* the transport member of the guard, released when the guard is destroyed
TransportRefsOfGuard(c) == IF guardRefs[c] = 1 THEN 1 ELSE 0

\* --------------------------------------------------------- faulty variants
\* a guard whose destructor runs at every release instead of the last one
ReleaseGuard_every(c) ==
    /\ guardRefs' = [guardRefs EXCEPT ![c] = @ - 1]
    /\ guardState' = [guardState EXCEPT ![c] = "destroyed"]
    /\ connections' = [connections EXCEPT ![username[c]] = 0]
    /\ events' = Record(c, "RemoveICETransport", 0)

\* a guard whose destructor does not deregister the session
ReleaseGuard_leak(c) ==
    /\ guardRefs' = [guardRefs EXCEPT ![c] = @ - 1]
    /\ guardState' = [guardState EXCEPT
                         ![c] = IF guardRefs[c] = 1 THEN "destroyed" ELSE @]
    /\ UNCHANGED <<connections, events>>

\* ------------------------------------------------- Connection Guard release
\* ~shared_ptr<OwnedRtpBundleTransportConnection>: atomic decrement of the use
\* count; the holder that takes it to zero runs
\* OwnedRtpBundleTransportConnection::~OwnedRtpBundleTransportConnection,
\* which calls transport->RemoveICETransport(connection->username)
ReleaseGuard(c) ==
    /\ guardRefs' = [guardRefs EXCEPT ![c] = @ - 1]
    /\ IF guardRefs[c] = 1
       THEN /\ guardState' = [guardState EXCEPT ![c] = "destroyed"]
            /\ connections' = [connections EXCEPT ![username[c]] = 0]
            /\ events' = Record(c, "RemoveICETransport", 0)
       ELSE UNCHANGED <<guardState, connections, events>>

\* an owned group whose destructor does not deregister the native group
group_dtor_remove_skip(g) ==
    /\ groupPc' = [groupPc EXCEPT ![g] = "dtor_members"]
    /\ UNCHANGED <<incoming, outgoing, events>>

\* ------------------------------------------------- owned source group release
\* ~OwnedRtpIncomingSourceGroup / ~OwnedRtpOutgoingSourceGroup, body:
\* RemoveIncomingSourceGroup / RemoveOutgoingSourceGroup on the session's
\* transport
group_dtor_remove(g) ==
    /\ incoming' = [incoming EXCEPT ![groupConn[g]] = @ \ {g}]
    /\ outgoing' = [outgoing EXCEPT ![groupConn[g]] = @ \ {g}]
    /\ events' = Record(groupConn[g], RemoveCall(groupKind[g]), g)
    /\ groupPc' = [groupPc EXCEPT ![g] = "dtor_members"]

\* ~shared_ptr<OwnedRtp...SourceGroup>: atomic decrement of the use count; the
\* holder that takes it to zero runs the owned group's destructor
ReleaseGroup(g) ==
    /\ groupRefs' = [groupRefs EXCEPT ![g] = @ - 1]
    /\ IF groupRefs[g] = 1
       THEN group_dtor_remove(g)
       ELSE UNCHANGED <<incoming, outgoing, events, groupPc>>

\* a registry facade that owns the transport alone and destroys it when dropped
registry_drop_owning ==
    /\ ~crashed
    /\ registryPc \in {"constructed", "alive"}
    /\ registryPc' = "dropped"
    /\ transportRefs' = transportRefs - 1
    /\ transportState' = "destroyed"
    /\ result' = Returned
    /\ UNCHANGED <<engineVars, guardVars, facadeVars, groupVars, socket,
                   relayVars, crashed>>

\* ------------------------------------------------------- Transport Registry
\* new_rtp_bundle_transport(port): RtpBundleTransportFacade::RtpBundleTransportFacade
\* creates the transport and throws when Init(port) returns 0; the exception
\* releases the transport member, the facade is never returned
new_rtp_bundle_transport(bindOk) ==
    /\ ~crashed
    /\ registryPc = "none"
    /\ IF bindOk
       THEN /\ registryPc' = "alive"
            /\ socket' = "open"
            /\ transportRefs' = 1
            /\ transportState' = "alive"
            /\ result' = [op |-> "new_rtp_bundle_transport", arg |-> "",
                          outcome |-> "ok"]
       ELSE /\ registryPc' = "none"
            /\ socket' = "failed"
            /\ transportRefs' = 0
            /\ transportState' = "destroyed"
            /\ result' = [op |-> "new_rtp_bundle_transport", arg |-> "",
                          outcome |-> "failed to open socket"]
    /\ UNCHANGED <<engineVars, guardVars, facadeVars, groupVars, relayVars,
                   crashed>>

\* ~RtpBundleTransportFacade (implicit): the transport member is released
registry_drop ==
    /\ ~crashed
    /\ registryPc \in {"constructed", "alive"}
    /\ registryPc' = "dropped"
    /\ ReleaseTransport(1)
    /\ result' = Returned
    /\ UNCHANGED <<engineVars, guardVars, facadeVars, groupVars, socket,
                   relayVars, crashed>>

\* RtpBundleTransportFacade::add_ice_transport: the guard and the facade each
\* take a copy of the transport's shared_ptr
add_ice_transport(u, ok) ==
    /\ ~crashed
    /\ registryPc = "alive"
    /\ LET connection == AddICETransport(u, ok)
       IN /\ connection # 0 => Allocated < MaxAllocs
          /\ IF connection = 0
             THEN /\ result' = [op |-> "add_ice_transport", arg |-> u,
                                outcome |-> "ice transport creation failed"]
                  /\ UNCHANGED <<engineVars, guardVars, facadeVars, groupVars,
                                 registryVars, relayVars, crashed>>
             ELSE /\ connections' = [connections EXCEPT ![u] = connection]
                  /\ username' = [username EXCEPT ![connection] = u]
                  /\ nextConn' = nextConn + 1
                  /\ events' = Record(connection, "AddICETransport", 0)
                  /\ guardRefs' = [guardRefs EXCEPT ![connection] = 1]
                  /\ guardState' = [guardState EXCEPT ![connection] = "live"]
                  /\ facadePc' = [facadePc EXCEPT ![connection] = "idle"]
                  /\ active_listener' = [active_listener EXCEPT
                                            ![connection] = 0]
                  /\ transportRefs' = transportRefs + 2
                  /\ result' = [op |-> "add_ice_transport", arg |-> u,
                                outcome |-> "ok"]
                  /\ UNCHANGED <<listener, incoming, outgoing, bridgeAlive,
                                 nextBridge, groupVars, registryPc, socket,
                                 transportState, relayVars, crashed>>

\* set_listener that creates the adapter but does not register it
set_listener_install_stale(c) ==
    /\ ~crashed
    /\ facadePc[c] = "set_listener"
    /\ facadePc' = [facadePc EXCEPT ![c] = "idle"]
    /\ result' = Returned
    /\ UNCHANGED <<engineVars, guardVars, active_listener, bridgeAlive,
                   nextBridge, groupVars, registryVars, relayVars, crashed>>

\* a facade destructor that does not clear the listener registration
facade_dtor_clear_skip(c) ==
    /\ ~crashed
    /\ facadePc[c] = "idle"
    /\ facadePc' = [facadePc EXCEPT ![c] = "dtor_reset"]
    /\ result' = Returned
    /\ UNCHANGED <<engineVars, guardVars, active_listener, bridgeAlive,
                   nextBridge, groupVars, registryVars, relayVars, crashed>>

\* a facade destructor that deregisters the session itself, whoever else
\* holds the guard (the destructor of the facade before the guard existed)
facade_dtor_members_remove(c) ==
    /\ ~crashed
    /\ facadePc[c] = "dtor_members"
    /\ guardState[c] = "live"
    /\ guardRefs' = [guardRefs EXCEPT ![c] = @ - 1]
    /\ guardState' = [guardState EXCEPT
                         ![c] = IF guardRefs[c] = 1 THEN "destroyed" ELSE @]
    /\ connections' = [connections EXCEPT ![username[c]] = 0]
    /\ events' = Record(c, "RemoveICETransport", 0)
    /\ ReleaseTransport(1 + TransportRefsOfGuard(c))
    /\ facadePc' = [facadePc EXCEPT ![c] = "gone"]
    /\ result' = Returned
    /\ UNCHANGED <<listener, incoming, outgoing, nextConn, username,
                   active_listener, bridgeAlive, nextBridge, groupVars,
                   registryPc, socket, relayVars, crashed>>

\* --------------------------------------------------------- Connection Facade
\* set_listener, first statement: make_unique of the new adapter and move
\* assignment to active_listener, which destroys the adapter held before
set_listener_assign(c) ==
    /\ ~crashed
    /\ facadePc[c] = "idle"
    /\ Allocated < MaxAllocs
    /\ nextBridge' = nextBridge + 1
    /\ bridgeAlive' = (bridgeAlive \cup {nextBridge}) \ {active_listener[c]}
    /\ events' = IF active_listener[c] # 0
                 THEN Record(c, "DestroyBridge", active_listener[c])
                 ELSE events
    /\ active_listener' = [active_listener EXCEPT ![c] = nextBridge]
    /\ facadePc' = [facadePc EXCEPT ![c] = "set_listener"]
    /\ result' = Returned
    /\ UNCHANGED <<connections, listener, incoming, outgoing, nextConn,
                   username, guardVars, groupVars, registryVars, relayVars,
                   crashed>>

\* set_listener, second statement: SetListener(active_listener.get())
set_listener_install(c) ==
    /\ ~crashed
    /\ facadePc[c] = "set_listener"
    /\ listener' = [listener EXCEPT ![c] = active_listener[c]]
    /\ events' = Record(c, "SetListener", active_listener[c])
    /\ facadePc' = [facadePc EXCEPT ![c] = "idle"]
    /\ result' = Returned
    /\ UNCHANGED <<connections, incoming, outgoing, nextConn, username,
                   guardVars, active_listener, bridgeAlive, nextBridge,
                   groupVars, registryVars, relayVars, crashed>>

\* ~RtpBundleTransportConnectionFacade, first statement: SetListener(nullptr)
facade_dtor_clear(c) ==
    /\ ~crashed
    /\ facadePc[c] = "idle"
    /\ listener' = [listener EXCEPT ![c] = 0]
    /\ events' = Record(c, "SetListener", 0)
    /\ facadePc' = [facadePc EXCEPT ![c] = "dtor_reset"]
    /\ result' = Returned
    /\ UNCHANGED <<connections, incoming, outgoing, nextConn, username,
                   guardVars, active_listener, bridgeAlive, nextBridge,
                   groupVars, registryVars, relayVars, crashed>>

\* ~RtpBundleTransportConnectionFacade, second statement: active_listener = nullptr
facade_dtor_reset(c) ==
    /\ ~crashed
    /\ facadePc[c] = "dtor_reset"
    /\ bridgeAlive' = bridgeAlive \ {active_listener[c]}
    /\ events' = IF active_listener[c] # 0
                 THEN Record(c, "DestroyBridge", active_listener[c])
                 ELSE events
    /\ active_listener' = [active_listener EXCEPT ![c] = 0]
    /\ facadePc' = [facadePc EXCEPT ![c] = "dtor_members"]
    /\ result' = Returned
    /\ UNCHANGED <<connections, listener, incoming, outgoing, nextConn,
                   username, guardVars, nextBridge, groupVars, registryVars,
                   relayVars, crashed>>

\* ~RtpBundleTransportConnectionFacade, members in reverse order of their
\* declaration after the destructor body: active_listener (already null),
\* connection (shared ownership of the guard), transport
facade_dtor_members(c) ==
    /\ ~crashed
    /\ facadePc[c] = "dtor_members"
    /\ guardState[c] = "live"
    /\ ReleaseGuard(c)
    /\ ReleaseTransport(1 + TransportRefsOfGuard(c))
    /\ facadePc' = [facadePc EXCEPT ![c] = "gone"]
    /\ result' = Returned
    /\ UNCHANGED <<listener, incoming, outgoing, nextConn, username,
                   active_listener, bridgeAlive, nextBridge, groupVars,
                   registryPc, socket, relayVars, crashed>>

\* add_incoming_source_group that builds the facade before it looks at what
\* AddIncomingSourceGroup returned
add_incoming_source_group_unchecked(c, ssrc) ==
    /\ ~crashed
    /\ facadePc[c] = "idle"
    /\ Allocated < MaxAllocs
    /\ IF ~AddIncomingSourceGroup(c, ssrc)
       THEN /\ result' = [op |-> "add_incoming_source_group",
                          arg |-> username[c],
                          outcome |-> "failed to add incoming source group"]
            /\ UNCHANGED <<incoming, events>>
       ELSE /\ incoming' = [incoming EXCEPT ![c] = @ \cup {nextGroup}]
            /\ events' = Record(c, "AddIncomingSourceGroup", nextGroup)
            /\ result' = [op |-> "add_incoming_source_group",
                          arg |-> username[c], outcome |-> "ok"]
    /\ groupPc' = [groupPc EXCEPT ![nextGroup] = "live"]
    /\ groupConn' = [groupConn EXCEPT ![nextGroup] = c]
    /\ groupSsrc' = [groupSsrc EXCEPT ![nextGroup] = ssrc]
    /\ groupKind' = [groupKind EXCEPT ![nextGroup] = "incoming"]
    /\ groupRefs' = [groupRefs EXCEPT ![nextGroup] = 1]
    /\ groupFacade' = [groupFacade EXCEPT ![nextGroup] = TRUE]
    /\ nextGroup' = nextGroup + 1
    /\ guardRefs' = [guardRefs EXCEPT ![c] = @ + 1]
    /\ UNCHANGED <<connections, listener, outgoing, nextConn, username,
                   guardState, facadeVars, registryVars, relayVars, crashed>>

\* RtpBundleTransportConnectionFacade::add_incoming_source_group: the native
\* group made at the first statement is freed by its unique_ptr when the
\* function throws; on success the owned group takes a copy of the guard's
\* shared_ptr and the facade holds the owned group
add_incoming_source_group(c, ssrc) ==
    /\ ~crashed
    /\ facadePc[c] = "idle"
    /\ Allocated < MaxAllocs
    /\ IF ~AddIncomingSourceGroup(c, ssrc)
       THEN /\ result' = [op |-> "add_incoming_source_group",
                          arg |-> username[c],
                          outcome |-> "failed to add incoming source group"]
            /\ UNCHANGED <<engineVars, guardVars, groupVars>>
       ELSE /\ incoming' = [incoming EXCEPT ![c] = @ \cup {nextGroup}]
            /\ events' = Record(c, "AddIncomingSourceGroup", nextGroup)
            /\ groupPc' = [groupPc EXCEPT ![nextGroup] = "live"]
            /\ groupConn' = [groupConn EXCEPT ![nextGroup] = c]
            /\ groupSsrc' = [groupSsrc EXCEPT ![nextGroup] = ssrc]
            /\ groupKind' = [groupKind EXCEPT ![nextGroup] = "incoming"]
            /\ groupRefs' = [groupRefs EXCEPT ![nextGroup] = 1]
            /\ groupFacade' = [groupFacade EXCEPT ![nextGroup] = TRUE]
            /\ nextGroup' = nextGroup + 1
            /\ guardRefs' = [guardRefs EXCEPT ![c] = @ + 1]
            /\ result' = [op |-> "add_incoming_source_group",
                          arg |-> username[c], outcome |-> "ok"]
            /\ UNCHANGED <<connections, listener, outgoing, nextConn,
                           username, guardState>>
    /\ UNCHANGED <<facadeVars, registryVars, relayVars, crashed>>

\* RtpBundleTransportConnectionFacade::add_outgoing_source_group, symmetric
\* to add_incoming_source_group for send state: a rejected group leaves
\* nothing behind; on success the owned group takes a copy of the guard's
\* shared_ptr and the facade holds the owned group
add_outgoing_source_group(c, ssrc) ==
    /\ ~crashed
    /\ facadePc[c] = "idle"
    /\ Allocated < MaxAllocs
    /\ IF ~AddOutgoingSourceGroup(c, ssrc)
       THEN /\ result' = [op |-> "add_outgoing_source_group",
                          arg |-> username[c],
                          outcome |-> "failed to add outgoing source group"]
            /\ UNCHANGED <<engineVars, guardVars, groupVars>>
       ELSE /\ outgoing' = [outgoing EXCEPT ![c] = @ \cup {nextGroup}]
            /\ events' = Record(c, "AddOutgoingSourceGroup", nextGroup)
            /\ groupPc' = [groupPc EXCEPT ![nextGroup] = "live"]
            /\ groupConn' = [groupConn EXCEPT ![nextGroup] = c]
            /\ groupSsrc' = [groupSsrc EXCEPT ![nextGroup] = ssrc]
            /\ groupKind' = [groupKind EXCEPT ![nextGroup] = "outgoing"]
            /\ groupRefs' = [groupRefs EXCEPT ![nextGroup] = 1]
            /\ groupFacade' = [groupFacade EXCEPT ![nextGroup] = TRUE]
            /\ nextGroup' = nextGroup + 1
            /\ guardRefs' = [guardRefs EXCEPT ![c] = @ + 1]
            /\ result' = [op |-> "add_outgoing_source_group",
                          arg |-> username[c], outcome |-> "ok"]
            /\ UNCHANGED <<connections, listener, incoming, nextConn,
                           username, guardState>>
    /\ UNCHANGED <<facadeVars, registryVars, relayVars, crashed>>

\* a source group facade that owns the group alone: dropping it runs the
\* owned group's destructor whoever else holds the group
group_facade_drop_owning(g) ==
    /\ ~crashed
    /\ groupFacade[g]
    /\ groupFacade' = [groupFacade EXCEPT ![g] = FALSE]
    /\ groupRefs' = [groupRefs EXCEPT ![g] = @ - 1]
    /\ group_dtor_remove(g)
    /\ result' = Returned
    /\ UNCHANGED <<connections, listener, nextConn, username, guardVars,
                   facadeVars, groupConn, groupSsrc, nextGroup, groupKind,
                   registryVars, relayVars, crashed>>

\* ---------------------------------------------------- Source Group Facades
\* ~RtpIncomingSourceGroupFacade / ~RtpOutgoingSourceGroupFacade (implicit):
\* the source_group member (shared ownership of the owned group) is released
group_facade_drop(g) ==
    /\ ~crashed
    /\ groupFacade[g]
    /\ groupFacade' = [groupFacade EXCEPT ![g] = FALSE]
    /\ ReleaseGroup(g)
    /\ result' = Returned
    /\ UNCHANGED <<connections, listener, nextConn, username, guardVars,
                   facadeVars, groupConn, groupSsrc, nextGroup, groupKind,
                   registryVars, relayVars, crashed>>

\* ~OwnedRtp...SourceGroup, members in reverse order of their declaration:
\* connection (shared ownership of the guard) is released first
group_dtor_members(g) ==
    /\ ~crashed
    /\ groupPc[g] = "dtor_members"
    /\ ReleaseGuard(groupConn[g])
    /\ ReleaseTransport(TransportRefsOfGuard(groupConn[g]))
    /\ groupPc' = [groupPc EXCEPT ![g] = "dtor_free"]
    /\ result' = Returned
    /\ UNCHANGED <<listener, incoming, outgoing, nextConn, username,
                   facadeVars, groupConn, groupSsrc, nextGroup, groupKind,
                   groupRefs, groupFacade, registryPc, socket, relayVars,
                   crashed>>

\* ~OwnedRtp...SourceGroup, members: source_group, declared first, is
\* destroyed last; its unique_ptr frees the native group
group_dtor_free(g) ==
    /\ ~crashed
    /\ groupPc[g] = "dtor_free"
    /\ groupPc' = [groupPc EXCEPT ![g] = "gone"]
    /\ result' = Returned
    /\ UNCHANGED <<engineVars, guardVars, facadeVars, groupConn, groupSsrc,
                   nextGroup, groupKind, groupRefs, groupFacade, registryVars,
                   relayVars, crashed>>

\* ----------------------------------------------------------- Listener Bridge
EventKinds == {"onICETimeout", "onDTLSStateChanged",
               "onRemoteICECandidateActivated"}

\* The engine's thread fires an event on a registered session: it calls the
\* Listener* in the session's slot (DtlsIceTransportListenerCxxAdapter::on...,
\* which forwards to the boxed listener).  Reading the slot and making the
\* call exclude SetListener.  Calling a destroyed adapter is undefined: the
\* freed listener runs, or the process dies.
Deliver(c, kind) ==
    /\ ~crashed
    /\ Registered(c)
    /\ listener[c] # 0
    /\ Delivered < MaxDeliveries
    /\ IF listener[c] \in bridgeAlive
       THEN /\ events' = Record(c, "Callback", listener[c])
            /\ crashed' = crashed
       ELSE \E outcome \in {"CallbackFreed", "Crash"} :
                /\ events' = Record(c, outcome, listener[c])
                /\ crashed' = (outcome = "Crash")
    /\ result' = Returned
    /\ UNCHANGED <<connections, listener, incoming, outgoing, nextConn,
                   username, guardVars, facadeVars, groupVars, registryVars,
                   relayVars>>

\* -------------------------------------------------------- Stream Transponder
\* how a call on transponder t with source group g is named in result
TpArg(t, g) == ToString(t) \o ":" \o ToString(g)

\* a transponder operation returns after the destructor of an owned group
\* that its release started has run to the end
TpReady(t) == IF tpWait[t] = 0 THEN TRUE ELSE groupPc[tpWait[t]] = "gone"

\* set_incoming that swaps the held group before it knows whether the engine
\* accepted the new source
set_incoming_swap_first(t, g, ok) ==
    /\ ~crashed
    /\ tpPc[t] = "live"
    /\ TpReady(t)
    /\ groupFacade[g]
    /\ groupKind[g] = "incoming"
    /\ LET old == tpIncoming[t]
       IN /\ relay' = IF ok THEN [relay EXCEPT ![t] = g] ELSE relay
          /\ tpIncoming' = [tpIncoming EXCEPT ![t] = g]
          /\ result' = [op |-> "set_incoming", arg |-> TpArg(t, g),
                        outcome |-> IF ok THEN "ok"
                                    ELSE "failed to set incoming"]
          /\ IF old = g
             THEN UNCHANGED <<incoming, outgoing, events, groupPc, groupRefs,
                              tpWait>>
             ELSE IF old = 0
             THEN /\ groupRefs' = [groupRefs EXCEPT ![g] = @ + 1]
                  /\ tpWait' = [tpWait EXCEPT ![t] = 0]
                  /\ UNCHANGED <<incoming, outgoing, events, groupPc>>
             ELSE /\ groupRefs' = [groupRefs EXCEPT ![g] = @ + 1,
                                                    ![old] = @ - 1]
                  /\ IF groupRefs[old] = 1
                     THEN /\ group_dtor_remove(old)
                          /\ tpWait' = [tpWait EXCEPT ![t] = old]
                     ELSE /\ tpWait' = [tpWait EXCEPT ![t] = 0]
                          /\ UNCHANGED <<incoming, outgoing, events, groupPc>>
    /\ UNCHANGED <<connections, listener, nextConn, username, guardVars,
                   facadeVars, groupConn, groupSsrc, nextGroup, groupKind,
                   groupFacade, registryVars, tpPc, tpOutgoing, nextTp,
                   crashed>>

\* a transponder whose set_incoming also replaces the outgoing member by the
\* group it was given
set_incoming_retarget(t, g, ok) ==
    /\ ~crashed
    /\ tpPc[t] = "live"
    /\ TpReady(t)
    /\ groupFacade[g]
    /\ groupKind[g] = "incoming"
    /\ result' = [op |-> "set_incoming", arg |-> TpArg(t, g),
                  outcome |-> IF ok THEN "ok" ELSE "failed to set incoming"]
    /\ tpOutgoing' = IF ok THEN [tpOutgoing EXCEPT ![t] = g] ELSE tpOutgoing
    /\ UNCHANGED <<engineVars, guardVars, facadeVars, groupVars, registryVars,
                   tpPc, tpIncoming, tpWait, relay, nextTp, crashed>>

\* set_incoming that installs the source only in an unbound transponder
set_incoming_first_wins(t, g, ok) ==
    /\ ~crashed
    /\ tpPc[t] = "live"
    /\ TpReady(t)
    /\ groupFacade[g]
    /\ groupKind[g] = "incoming"
    /\ result' = [op |-> "set_incoming", arg |-> TpArg(t, g),
                  outcome |-> IF ok THEN "ok" ELSE "failed to set incoming"]
    /\ IF ok /\ tpIncoming[t] = 0
       THEN /\ relay' = [relay EXCEPT ![t] = g]
            /\ tpIncoming' = [tpIncoming EXCEPT ![t] = g]
            /\ groupRefs' = [groupRefs EXCEPT ![g] = @ + 1]
       ELSE UNCHANGED <<relay, tpIncoming, groupRefs>>
    /\ UNCHANGED <<engineVars, guardVars, facadeVars, groupPc, groupConn,
                   groupSsrc, nextGroup, groupKind, groupFacade, registryVars,
                   tpPc, tpOutgoing, tpWait, nextTp, crashed>>

\* RtpOutgoingSourceGroupFacade::add_transponder: the new
\* RtpStreamTransponderFacade takes a copy of the outgoing facade's
\* shared_ptr and creates the engine's transponder; incoming starts null
add_transponder(o) ==
    /\ ~crashed
    /\ groupFacade[o]
    /\ groupKind[o] = "outgoing"
    /\ nextTp <= MaxTransponders
    /\ tpPc' = [tpPc EXCEPT ![nextTp] = "live"]
    /\ tpOutgoing' = [tpOutgoing EXCEPT ![nextTp] = o]
    /\ groupRefs' = [groupRefs EXCEPT ![o] = @ + 1]
    /\ nextTp' = nextTp + 1
    /\ result' = [op |-> "add_transponder", arg |-> "", outcome |-> "ok"]
    /\ UNCHANGED <<engineVars, guardVars, facadeVars, groupPc, groupConn,
                   groupSsrc, nextGroup, groupKind, groupFacade, registryVars,
                   tpIncoming, tpWait, relay, crashed>>

\* RtpStreamTransponderFacade::set_incoming: the engine installs the new
\* source; when it refuses, the call fails and the transponder is as before;
\* else incoming is assigned a copy of the new facade's shared_ptr, which
\* releases the group held before
set_incoming(t, g, ok) ==
    /\ ~crashed
    /\ tpPc[t] = "live"
    /\ TpReady(t)
    /\ groupFacade[g]
    /\ groupKind[g] = "incoming"
    /\ IF ~ok
       THEN /\ result' = [op |-> "set_incoming", arg |-> TpArg(t, g),
                          outcome |-> "failed to set incoming"]
            /\ UNCHANGED <<incoming, outgoing, events, groupPc, groupRefs,
                           tpIncoming, tpWait, relay>>
       ELSE LET old == tpIncoming[t]
            IN /\ relay' = [relay EXCEPT ![t] = g]
               /\ tpIncoming' = [tpIncoming EXCEPT ![t] = g]
               /\ result' = [op |-> "set_incoming", arg |-> TpArg(t, g),
                             outcome |-> "ok"]
               /\ IF old = g
                  THEN UNCHANGED <<incoming, outgoing, events, groupPc,
                                   groupRefs, tpWait>>
                  ELSE IF old = 0
                  THEN /\ groupRefs' = [groupRefs EXCEPT ![g] = @ + 1]
                       /\ tpWait' = [tpWait EXCEPT ![t] = 0]
                       /\ UNCHANGED <<incoming, outgoing, events, groupPc>>
                  ELSE /\ groupRefs' = [groupRefs EXCEPT ![g] = @ + 1,
                                                         ![old] = @ - 1]
                       /\ IF groupRefs[old] = 1
                          THEN /\ group_dtor_remove(old)
                               /\ tpWait' = [tpWait EXCEPT ![t] = old]
                          ELSE /\ tpWait' = [tpWait EXCEPT ![t] = 0]
                               /\ UNCHANGED <<incoming, outgoing, events,
                                              groupPc>>
    /\ UNCHANGED <<connections, listener, nextConn, username, guardVars,
                   facadeVars, groupConn, groupSsrc, nextGroup, groupKind,
                   groupFacade, registryVars, tpPc, tpOutgoing, nextTp,
                   crashed>>

\* ~RtpStreamTransponderFacade (implicit), members in reverse order of their
\* declaration: transponder, declared last, is destroyed first; the engine's
\* transponder stops relaying
tp_dtor_transponder(t) ==
    /\ ~crashed
    /\ tpPc[t] = "live"
    /\ TpReady(t)
    /\ tpPc' = [tpPc EXCEPT ![t] = "dtor_outgoing"]
    /\ relay' = [relay EXCEPT ![t] = 0]
    /\ tpWait' = [tpWait EXCEPT ![t] = 0]
    /\ result' = Returned
    /\ UNCHANGED <<engineVars, guardVars, facadeVars, groupVars, registryVars,
                   tpOutgoing, tpIncoming, nextTp, crashed>>

\* ~RtpStreamTransponderFacade, members: outgoing is released
tp_dtor_outgoing(t) ==
    /\ ~crashed
    /\ tpPc[t] = "dtor_outgoing"
    /\ ReleaseGroup(tpOutgoing[t])
    /\ tpWait' = [tpWait EXCEPT
                     ![t] = IF groupRefs[tpOutgoing[t]] = 1
                            THEN tpOutgoing[t] ELSE 0]
    /\ tpOutgoing' = [tpOutgoing EXCEPT ![t] = 0]
    /\ tpPc' = [tpPc EXCEPT ![t] = "dtor_incoming"]
    /\ result' = Returned
    /\ UNCHANGED <<connections, listener, nextConn, username, guardVars,
                   facadeVars, groupConn, groupSsrc, nextGroup, groupKind,
                   groupFacade, registryVars, tpIncoming, relay, nextTp,
                   crashed>>

\* ~RtpStreamTransponderFacade, members: incoming, declared first, is released
\* last
tp_dtor_incoming(t) ==
    /\ ~crashed
    /\ tpPc[t] = "dtor_incoming"
    /\ TpReady(t)
    /\ IF tpIncoming[t] # 0
       THEN ReleaseGroup(tpIncoming[t])
       ELSE UNCHANGED <<groupRefs, incoming, outgoing, events, groupPc>>
    /\ tpIncoming' = [tpIncoming EXCEPT ![t] = 0]
    /\ tpWait' = [tpWait EXCEPT ![t] = 0]
    /\ tpPc' = [tpPc EXCEPT ![t] = "gone"]
    /\ result' = Returned
    /\ UNCHANGED <<connections, listener, nextConn, username, guardVars,
                   facadeVars, groupConn, groupSsrc, nextGroup, groupKind,
                   groupFacade, registryVars, tpOutgoing, relay, nextTp,
                   crashed>>

\* ------------------------------------------ src/src/bridge.cc (first version)
\* new_rtp_bundle_transport(): the constructor only creates the transport
legacy_new_rtp_bundle_transport ==
    /\ ~crashed
    /\ registryPc = "none"
    /\ registryPc' = "constructed"
    /\ transportRefs' = 1
    /\ transportState' = "alive"
    /\ result' = [op |-> "new_rtp_bundle_transport", arg |-> "",
                  outcome |-> "ok"]
    /\ UNCHANGED <<engineVars, guardVars, facadeVars, groupVars, socket,
                   relayVars, crashed>>

\* RtpBundleTransportFacade::init: returns what RTPBundleTransport::Init
\* returned, the port or 0; the facade keeps no state about it, so it can be
\* called again on the same facade, also after it returned 0
legacy_init(bindOk) ==
    /\ ~crashed
    /\ registryPc = "constructed"
    /\ socket' = IF bindOk THEN "open" ELSE "failed"
    /\ result' = [op |-> "init", arg |-> "",
                  outcome |-> IF bindOk THEN "port" ELSE "0"]
    /\ UNCHANGED <<engineVars, guardVars, facadeVars, groupVars, registryPc,
                   transportRefs, transportState, relayVars, crashed>>

\* RtpBundleTransportFacade::add_ice_transport: returns nullptr when
\* AddICETransport returned NULL, else a facade that holds the transport, the
\* username and the session
legacy_add_ice_transport(u, ok) ==
    /\ ~crashed
    /\ registryPc = "constructed"
    /\ LET connection == AddICETransport(u, ok)
       IN /\ connection # 0 => Allocated < MaxAllocs
          /\ IF connection = 0
             THEN /\ result' = [op |-> "add_ice_transport", arg |-> u,
                                outcome |-> "nullptr"]
                  /\ UNCHANGED <<engineVars, facadeVars, transportRefs>>
             ELSE /\ connections' = [connections EXCEPT ![u] = connection]
                  /\ username' = [username EXCEPT ![connection] = u]
                  /\ nextConn' = nextConn + 1
                  /\ events' = Record(connection, "AddICETransport", 0)
                  /\ facadePc' = [facadePc EXCEPT ![connection] = "idle"]
                  /\ active_listener' = [active_listener EXCEPT
                                            ![connection] = 0]
                  /\ transportRefs' = transportRefs + 1
                  /\ result' = [op |-> "add_ice_transport", arg |-> u,
                                outcome |-> "ok"]
                  /\ UNCHANGED <<listener, incoming, outgoing, bridgeAlive,
                                 nextBridge>>
    /\ UNCHANGED <<guardVars, groupVars, registryPc, socket, transportState,
                   relayVars, crashed>>

\* ~RTPBundleTransportConnectionFacade, third statement:
\* transport->RemoveICETransport(username); then the transport member is
\* released
legacy_facade_dtor_remove(c) ==
    /\ ~crashed
    /\ facadePc[c] = "dtor_members"
    /\ guardState[c] = "none"
    /\ connections' = [connections EXCEPT ![username[c]] = 0]
    /\ events' = Record(c, "RemoveICETransport", 0)
    /\ ReleaseTransport(1)
    /\ facadePc' = [facadePc EXCEPT ![c] = "gone"]
    /\ result' = Returned
    /\ UNCHANGED <<listener, incoming, outgoing, nextConn, username,
                   guardVars, active_listener, bridgeAlive, nextBridge,
                   groupVars, registryPc, socket, relayVars, crashed>>

\* ------------------------------------------------------------ specifications
Next ==
    \/ \E bindOk \in BOOLEAN : new_rtp_bundle_transport(bindOk)
    \/ registry_drop
    \/ \E u \in Usernames, ok \in BOOLEAN : add_ice_transport(u, ok)
    \/ \E c \in ConnIds : set_listener_assign(c)
    \/ \E c \in ConnIds : set_listener_install(c)
    \/ \E c \in ConnIds : facade_dtor_clear(c)
    \/ \E c \in ConnIds : facade_dtor_reset(c)
    \/ \E c \in ConnIds : facade_dtor_members(c)
    \/ \E c \in ConnIds, ssrc \in Ssrcs : add_incoming_source_group(c, ssrc)
    \/ \E c \in ConnIds, ssrc \in OutgoingSsrcs :
          add_outgoing_source_group(c, ssrc)
    \/ \E g \in GroupIds : group_facade_drop(g)
    \/ \E g \in GroupIds : group_dtor_members(g)
    \/ \E g \in GroupIds : group_dtor_free(g)
    \/ \E c \in ConnIds, kind \in EventKinds : Deliver(c, kind)

Spec == Init /\ [][Next]_vars

NextRelay ==
    \/ \E o \in GroupIds : add_transponder(o)
    \/ \E t \in TpIds, g \in GroupIds, ok \in BOOLEAN : set_incoming(t, g, ok)
    \/ \E t \in TpIds : tp_dtor_transponder(t)
    \/ \E t \in TpIds : tp_dtor_outgoing(t)
    \/ \E t \in TpIds : tp_dtor_incoming(t)
    \/ \E g \in GroupIds : group_facade_drop(g)
    \/ \E g \in GroupIds : group_dtor_members(g)
    \/ \E g \in GroupIds : group_dtor_free(g)
    \/ \E c \in ConnIds : facade_dtor_clear(c)
    \/ \E c \in ConnIds : facade_dtor_reset(c)
    \/ \E c \in ConnIds : facade_dtor_members(c)

SpecRelay == InitRelay /\ [][NextRelay]_vars

NextLegacy ==
    \/ legacy_new_rtp_bundle_transport
    \/ \E bindOk \in BOOLEAN : legacy_init(bindOk)
    \/ registry_drop
    \/ \E u \in Usernames, ok \in BOOLEAN : legacy_add_ice_transport(u, ok)
    \/ \E c \in ConnIds : set_listener_assign(c)
    \/ \E c \in ConnIds : set_listener_install(c)
    \/ \E c \in ConnIds : facade_dtor_clear(c)
    \/ \E c \in ConnIds : facade_dtor_reset(c)
    \/ \E c \in ConnIds : legacy_facade_dtor_remove(c)
    \/ \E c \in ConnIds, kind \in EventKinds : Deliver(c, kind)

SpecLegacy == Init /\ [][NextLegacy]_vars

\* ------------------------------------------------------------------ claims
\* the holders of the guard of session c that have not released it yet:
\* its connection facade and the owned source groups created from it
Holders(c) ==
    (IF facadePc[c] \in {"idle", "set_listener", "dtor_reset", "dtor_members"}
     THEN 1 ELSE 0)
    + Cardinality({g \in GroupIds : groupPc[g] \in {"live", "dtor_members"}
                                      /\ groupConn[g] = c})

Created(c) == facadePc[c] # "none"

\* the adapters set_listener has created on the facade of session c
BridgesOf(c) ==
    ({events[c][i][2] : i \in {j \in DOMAIN events[c] :
                                  events[c][j][1] = "SetListener"}}
     \cup {active_listener[c]}) \ {0}

\* C1: for every connection created by add_ice_transport and every order in
\* which its holders (facade, source groups) are released, RemoveICETransport
\* is invoked exactly once: not before the last holder is released, once when
\* all holders are gone, never twice.
C1_RemoveExactlyOnce ==
    \A c \in ConnIds :
        LET n == Count(events[c], "RemoveICETransport")
        IN /\ n <= 1
           /\ (Created(c) /\ Holders(c) = 0) => n = 1
           /\ n = 1 => Holders(c) = 0

\* C1 witness: a connection that had two source groups has lost all holders
\* and was removed once.
C1_Witness ==
    \E c \in ConnIds :
        /\ Count(events[c], "AddIncomingSourceGroup") = 2
        /\ Holders(c) = 0
        /\ Count(events[c], "RemoveICETransport") = 1

\* C2: a session stays in the transport's username map as long as any holder
\* of its guard is alive, in particular after its Connection Facade was
\* dropped while a Source Group is alive; it is deregistered only when the
\* last holder is dropped.
C2_RegisteredWhileHeld ==
    \A c \in ConnIds : Created(c) => (Registered(c) <=> Holders(c) > 0)

\* C2 witness: the facade is gone, a source group is alive, the session is
\* still registered.
C2_Witness ==
    \E c \in ConnIds, g \in GroupIds :
        /\ facadePc[c] = "gone"
        /\ groupPc[g] = "live" /\ groupConn[g] = c
        /\ Registered(c)

\* C3: when a Connection Facade is destroyed the listener registration is
\* cleared (SetListener(nullptr)) before the adapter is dropped and before
\* the guard reference is released, so the clear precedes the session's
\* RemoveICETransport in the recorded order.
C3_ClearBeforeRemove ==
    \A c \in ConnIds :
        /\ facadePc[c] \in {"dtor_reset", "dtor_members", "gone"}
              => listener[c] = 0
        /\ \A i \in DOMAIN events[c] :
              events[c][i][1] = "RemoveICETransport"
                 => \E j \in 1..(i - 1) : events[c][j] = <<"SetListener", 0>>

\* C3 witness: a session that had a listener registered was cleared and then
\* removed.
C3_Witness ==
    \E c \in ConnIds :
        /\ \E i \in DOMAIN events[c] :
              events[c][i][1] = "SetListener" /\ events[c][i][2] # 0
        /\ Count(events[c], "RemoveICETransport") = 1

\* C4: within set_listener the new adapter is installed in the transport
\* before the prior adapter is destroyed: an adapter is never destroyed while
\* it is the one the latest SetListener registered.
C4_InstallBeforeDestroy ==
    \A c \in ConnIds :
        \A i \in DOMAIN events[c] :
            events[c][i][1] = "DestroyBridge"
               => LastSet(events[c], i) # events[c][i][2]

\* C5: in every reachable state the listener registered on a registered
\* session is none or an adapter that has not been destroyed, and the engine
\* thread has never called a destroyed adapter.
C5_NoDanglingListener ==
    /\ \A c \in ConnIds :
          Registered(c) => (listener[c] = 0 \/ listener[c] \in bridgeAlive)
    /\ \A c \in ConnIds : \A i \in DOMAIN events[c] :
          events[c][i][1] \notin {"CallbackFreed", "Crash"}
    /\ ~crashed

\* C6: once set_listener has returned, exactly one adapter of the facade
\* exists, it is the one created by the latest set_listener and it is the
\* one registered; every event fired after a later adapter was registered
\* goes to that later adapter, never to the one it replaced.
C6_RebindIdempotent ==
    \A c \in ConnIds :
        /\ (facadePc[c] = "idle" /\ active_listener[c] # 0) =>
              /\ listener[c] = active_listener[c]
              /\ BridgesOf(c) \cap bridgeAlive = {active_listener[c]}
              /\ \A b \in BridgesOf(c) : b <= active_listener[c]
        /\ \A i \in DOMAIN events[c] :
              IsCallback(events[c][i]) =>
                 \A j \in 1..(i - 1) :
                    (events[c][j][1] = "SetListener" /\ events[c][j][2] # 0)
                       => events[c][j][2] <= events[c][i][2]

\* C6 witness: after two set_listener calls on one facade an event reached
\* the second adapter.
C6_Witness ==
    \E c \in ConnIds :
        /\ facadePc[c] = "idle"
        /\ Cardinality(BridgesOf(c)) = 2
        /\ \E i \in DOMAIN events[c] :
              events[c][i] = <<"Callback", active_listener[c]>>

\* C7: once the SetListener(nullptr) of the facade's destruction has returned,
\* no further listener callback is delivered for that connection, also while
\* the session stays registered because source groups hold the guard.
C7_NoCallbackAfterClear ==
    [][\A c \in ConnIds :
          facadePc[c] \in {"dtor_reset", "dtor_members", "gone"}
             => NumCallbacks(events'[c]) = NumCallbacks(events[c])]_vars

\* C7 witness: a session that did deliver a callback has lost its facade and
\* is still registered, held by a source group.
C7_Witness ==
    \E c \in ConnIds :
        /\ facadePc[c] = "gone"
        /\ Registered(c)
        /\ NumCallbacks(events[c]) > 0

\* C8: add_ice_transport with a username whose session is still registered
\* fails with an error of its own (DuplicateUsernameError), one the caller
\* can tell from the error of a lower-level creation failure
\* ("ice transport creation failed"); it returns no facade, creates no guard
\* and leaves every connection as it was: registration, listener, source
\* groups, no RemoveICETransport.
C8_DuplicateUsernameRejected ==
    [][\A u \in Usernames :
          (result'.op = "add_ice_transport" /\ result'.arg = u
             /\ connections[u] # 0)
          => /\ result'.outcome \notin {"ok", "ice transport creation failed"}
             /\ UNCHANGED <<engineVars, guardVars, facadeVars, groupVars,
                            crashed>>]_vars

\* C9: the number of sessions registered in the transport equals the number
\* of Connection Guards not yet fully released.
C9_SessionsEqualGuards ==
    Cardinality({u \in Usernames : connections[u] # 0})
        = Cardinality({c \in ConnIds : guardState[c] = "live"})

\* C9 witness: one guard was fully released and another one is still held,
\* by a source group only.
C9_Witness ==
    \E c \in ConnIds, d \in ConnIds :
        /\ guardState[c] = "destroyed"
        /\ guardState[d] = "live" /\ facadePc[d] = "gone"

\* C10: at most one active connection per username: two guards of the same
\* username are never live together, and a later connection for a username
\* exists only if the guard of the earlier one was fully released.
C10_OneConnectionPerUsername ==
    \A c \in ConnIds, d \in ConnIds :
        (c < d /\ Created(d) /\ username[c] = username[d])
           => guardState[c] = "destroyed"

\* C10 witness: a username is in use again after its earlier guard was
\* released.
C10_Witness ==
    \E c \in ConnIds, d \in ConnIds :
        /\ c < d /\ username[c] = username[d]
        /\ guardState[d] = "live"
\* a connection facade or a guard derived from the transport still exists
TransportUsers ==
    \E c \in ConnIds :
        \/ facadePc[c] \in {"idle", "set_listener", "dtor_reset", "dtor_members"}
        \/ guardState[c] = "live"

\* C11: the transport is destroyed only after every connection derived from
\* it is gone: while a Connection Facade or a guard (held by a facade or a
\* Source Group) exists the transport is alive, also after the registry
\* facade was dropped, and every call recorded on the engine
\* (RemoveICETransport, RemoveIncomingSourceGroup, SetListener) is made
\* while the transport is not destroyed.
C11_TransportOutlivesConnections ==
    [][/\ TransportUsers' => transportState' = "alive"
       /\ events' # events => transportState = "alive"]_vars

\* C11 witness: the registry facade and the connection facade are dropped,
\* a source group has just deregistered and still holds the guard, the
\* transport is alive.
C11_Witness ==
    \E c \in ConnIds, g \in GroupIds :
        /\ registryPc = "dropped"
        /\ facadePc[c] = "gone"
        /\ groupConn[g] = c /\ groupPc[g] = "dtor_members"
        /\ Count(events[c], "RemoveIncomingSourceGroup") = 1
        /\ transportState = "alive"

\* C12: when the engine fails to create the session, add_ice_transport
\* signals an explicit error; it never returns a null facade as if the call
\* had succeeded, and the failed call leaves no guard, no listener
\* registration and no session behind.
C12_CreationFailureSignalled ==
    [][(result'.op = "add_ice_transport" /\ nextConn' = nextConn)
          => /\ result'.outcome = "ice transport creation failed"
             /\ UNCHANGED <<engineVars, guardVars, facadeVars, groupVars>>]_vars

\* C13: when the transport rejects the source group,
\* add_incoming_source_group fails and the system is as before: no Source
\* Group Facade, no native group allocated or registered, the registered
\* groups and the holder count of the guard unchanged; a call that returns a
\* facade has registered exactly its group.
C13_RejectedGroupLeavesNothing ==
    [][/\ (result'.op = "add_incoming_source_group" /\ result'.outcome # "ok")
          => /\ result'.outcome = "failed to add incoming source group"
             /\ UNCHANGED <<engineVars, guardVars, groupVars, facadeVars,
                            registryVars, relayVars>>
       /\ (result'.op = "add_incoming_source_group" /\ result'.outcome = "ok")
          => \E c \in ConnIds :
                /\ incoming'[c] = incoming[c] \cup {nextGroup}
                /\ nextGroup \notin incoming[c]
                /\ groupPc'[nextGroup] = "live"
                /\ guardRefs'[c] = guardRefs[c] + 1]_vars

\* C13 witness: a call on a connection that has a registered group has just
\* been rejected.
C13_Witness ==
    \E c \in ConnIds, g \in GroupIds :
        /\ result = [op |-> "add_incoming_source_group", arg |-> username[c],
                     outcome |-> "failed to add incoming source group"]
        /\ facadePc[c] = "idle"
        /\ g \in incoming[c] /\ groupPc[g] = "live"
        /\ guardRefs[c] = 2

\* C14: destroying a Source Group deregisters its native state before it
\* releases its guard reference: a group that has released the guard is no
\* longer registered, and in the record of a session every group added
\* before RemoveICETransport was removed before it.
C14_DeregisterBeforeRelease ==
    /\ \A g \in GroupIds :
          groupPc[g] \in {"dtor_members", "dtor_free", "gone"}
             => /\ g \notin incoming[groupConn[g]]
                /\ g \notin outgoing[groupConn[g]]
    /\ \A c \in ConnIds : \A i \in DOMAIN events[c] :
          events[c][i][1] = "RemoveICETransport"
             => \A j \in 1..(i - 1) :
                   events[c][j][1] \in {"AddIncomingSourceGroup",
                                        "AddOutgoingSourceGroup"}
                      => \E k \in (j + 1)..(i - 1) :
                            /\ events[c][k][1] \in {"RemoveIncomingSourceGroup",
                                                   "RemoveOutgoingSourceGroup"}
                            /\ events[c][k][2] = events[c][j][2]

\* C14 witness: the facade of a session was dropped before its source group;
\* the group's RemoveIncomingSourceGroup is directly followed by the
\* session's RemoveICETransport.
C14_Witness ==
    \E c \in ConnIds, g \in GroupIds :
        /\ facadePc[c] = "gone"
        /\ groupConn[g] = c /\ groupPc[g] \in {"dtor_free", "gone"}
        /\ Len(events[c]) >= 4
        /\ events[c][Len(events[c])] = <<"RemoveICETransport", 0>>
        /\ events[c][Len(events[c]) - 1] = <<"RemoveIncomingSourceGroup", g>>
        /\ events[c][Len(events[c]) - 2] = <<"SetListener", 0>>

\* C15: a Source Group's native state is deregistered before it is freed and
\* never outlives its connection: in every state, also inside the group's
\* destruction, a native group that is not yet freed belongs to a session
\* that is still registered.
C15_NativeStateWithinSession ==
    \A g \in GroupIds :
        /\ groupPc[g] \in {"live", "dtor_members", "dtor_free"}
              => Registered(groupConn[g])
        /\ groupPc[g] = "gone"
              => /\ g \notin incoming[groupConn[g]]
                 /\ g \notin outgoing[groupConn[g]]

\* C16: a transponder starts unbound; the source it relays is the one of the
\* last successful set_incoming; nothing else, in particular no drop of a
\* source group facade, changes the binding while the transponder exists.
C16_LastSetIncomingWins ==
    [][\A t \in TpIds :
          /\ (tpPc[t] = "none" /\ tpPc'[t] = "live")
                => (tpIncoming'[t] = 0 /\ relay'[t] = 0)
          /\ \A g \in GroupIds :
                result' = [op |-> "set_incoming", arg |-> TpArg(t, g),
                           outcome |-> "ok"]
                   => (relay'[t] = g /\ tpIncoming'[t] = g)
          /\ (tpPc[t] = "live" /\ tpPc'[t] = "live"
                /\ <<relay'[t], tpIncoming'[t]>> # <<relay[t], tpIncoming[t]>>)
                => \E g \in GroupIds :
                      /\ result' = [op |-> "set_incoming",
                                    arg |-> TpArg(t, g), outcome |-> "ok"]
                      /\ relay'[t] = g
                      /\ tpIncoming'[t] = g]_vars

\* C16 witness: a transponder bound to group 2 was rebound to group 3; group
\* 2, whose facade was dropped, has been destroyed, and the transponder
\* relays group 3.
C16_Witness ==
    \E t \in TpIds :
        /\ tpPc[t] = "live"
        /\ tpWait[t] = 2
        /\ groupPc[2] = "gone"
        /\ relay[t] = 3 /\ tpIncoming[t] = 3

\* C17: when set_incoming fails the transponder remains in its previous
\* state: unbound, or bound to the group it was bound to, whose shared
\* reference it still holds.
C17_FailedBindKeepsState ==
    [][\A t \in TpIds, g \in GroupIds :
          result' = [op |-> "set_incoming", arg |-> TpArg(t, g),
                     outcome |-> "failed to set incoming"]
             => /\ UNCHANGED <<tpPc, tpOutgoing, tpIncoming, relay, groupRefs,
                               groupPc, incoming, outgoing>>
                /\ tpIncoming[t] # 0
                      => /\ groupPc'[tpIncoming[t]] = "live"
                         /\ tpIncoming[t] \in
                               incoming'[groupConn[tpIncoming[t]]]]_vars

\* C17 witness: set_incoming of group 3 has just failed on a transponder
\* bound to group 2, which only the transponder holds.
C17_Witness ==
    \E t \in TpIds :
        /\ result = [op |-> "set_incoming", arg |-> TpArg(t, 3),
                     outcome |-> "failed to set incoming"]
        /\ relay[t] = 2 /\ tpIncoming[t] = 2
        /\ ~groupFacade[2] /\ groupPc[2] = "live" /\ groupRefs[2] = 1

\* C18: the Outgoing Source Group of a transponder is fixed for its lifetime:
\* no set_incoming and no drop of an Incoming Group Facade changes which
\* outgoing group the transponder holds, deregisters that group or destroys
\* the transponder.
C18_OutgoingFixed ==
    [][\A t \in TpIds :
          (/\ tpPc[t] = "live"
           /\ \/ result'.op = "set_incoming"
              \/ \E g \in GroupIds : /\ groupKind[g] = "incoming"
                                     /\ groupFacade[g] /\ ~groupFacade'[g])
          => /\ tpPc'[t] = "live"
             /\ tpOutgoing'[t] = tpOutgoing[t]
             /\ groupKind[tpOutgoing[t]] = "outgoing"
             /\ groupPc'[tpOutgoing[t]] = "live"
             /\ tpOutgoing[t] \in outgoing'[groupConn[tpOutgoing[t]]]]_vars

\* C18 witness: a transponder that alone holds outgoing group 1 was bound and
\* the facade of an incoming group was dropped.
C18_Witness ==
    \E t \in TpIds :
        /\ tpPc[t] = "live"
        /\ tpOutgoing[t] = 1 /\ ~groupFacade[1] /\ groupRefs[1] = 1
        /\ relay[t] = 3
        /\ ~groupFacade[2]
        /\ 1 \in outgoing[2]

\* C19: if the UDP socket cannot be opened, creating the registry fails and
\* leaves no partial state: no registry facade exists, no connection can be
\* added and no session is registered on the failed transport.
C19_BindFailureLeavesNothing ==
    socket = "failed"
       => /\ registryPc = "none"
          /\ \A u \in Usernames : connections[u] = 0

\* C20: while a transponder exists, the outgoing group it holds and the
\* incoming group it is bound to stay registered and their sessions stay
\* registered, whatever facades the caller dropped; an incoming group that
\* neither a facade nor a transponder holds is deregistered.
C20_TransponderKeepsGroups ==
    /\ \A t \in TpIds :
          tpPc[t] = "live"
             => /\ tpOutgoing[t] \in outgoing[groupConn[tpOutgoing[t]]]
                /\ Registered(groupConn[tpOutgoing[t]])
                /\ tpIncoming[t] # 0
                      => /\ relay[t] = tpIncoming[t]
                         /\ tpIncoming[t] \in incoming[groupConn[tpIncoming[t]]]
                         /\ Registered(groupConn[tpIncoming[t]])
    /\ \A g \in GroupIds :
          (/\ groupPc[g] # "none"
           /\ groupKind[g] = "incoming"
           /\ ~groupFacade[g]
           /\ \A t \in TpIds : tpIncoming[t] # g)
          => g \notin incoming[groupConn[g]]

\* C20 witness: the caller dropped both connection facades and all three
\* group facades; the transponder, rebound from group 2 to group 3, keeps
\* groups 1 and 3 and both sessions registered, group 2 is deregistered.
C20_Witness ==
    \E t \in TpIds :
        /\ tpPc[t] = "live"
        /\ tpOutgoing[t] = 1 /\ tpIncoming[t] = 3
        /\ facadePc[1] = "gone" /\ facadePc[2] = "gone"
        /\ \A g \in {1, 2, 3} : ~groupFacade[g]
        /\ Registered(1) /\ Registered(2)
        /\ incoming[1] = {3} /\ outgoing[2] = {1}
        /\ tpWait[t] = 2

\* C21: in every reachable state every source group registered on a session's
\* transport belongs to a session that is still in the registry's username
\* map: RemoveICETransport is never invoked for a session while one of its
\* source groups is still registered.
C21_RegisteredGroupHasSession ==
    \A c \in ConnIds :
        /\ (incoming[c] \cup outgoing[c]) # {} => Registered(c)
        /\ Count(events[c], "RemoveICETransport") > 0
              => (incoming[c] \cup outgoing[c]) = {}

\* C21 witness: the facade of a session with two source groups was dropped
\* and one group was destroyed; the other group is still registered and so
\* is the session.
C21_Witness ==
    \E c \in ConnIds, g \in GroupIds, h \in GroupIds :
        /\ facadePc[c] = "gone"
        /\ groupConn[g] = c /\ groupPc[g] = "gone"
        /\ groupConn[h] = c /\ incoming[c] = {h}
        /\ Registered(c)
        /\ Count(events[c], "RemoveICETransport") = 0
====
